---- MODULE Spec2Model ----
(***************************************************************************)
(* Model of libavfilter/af_dumpwave.c: the "dumpwave" audio filter.        *)
(*                                                                         *)
(* The filter passes S16 audio frames through unchanged and, on the side,  *)
(* reduces the first channel to one RMS value per column (filter_frame);   *)
(* when upstream reports end-of-stream it renders the columns into a       *)
(* comma-separated string of integers (request_frame).                     *)
(*                                                                         *)
(* Doubles.  The samples the model feeds remap to exactly 0.0 or 1.0       *)
(* (lines 199-208), so `sum` is an exact natural number.  Every other      *)
(* double of the program is NaN, +inf, or sqrt(num/den) for naturals       *)
(* num, den; it is kept as the record [cls, num, den] in lowest terms.     *)
(* Comparisons and divisions follow IEEE-754 (NaN compares false).         *)
(* exp() is evaluated in fixed point with FP fractional units.             *)
(*                                                                         *)
(* Memory.  av_malloc does not clear: a slot of values[] no commit has     *)
(* stored to is indeterminate and takes one of the Garbage values when the *)
(* rendering first reads it.  A store past the end of str is recorded in   *)
(* hiWrite; the process then either carries on or crashes.                 *)
(***************************************************************************)
EXTENDS Integers, Sequences, FiniteSets, TLC

(* ---------------- bounds of the exploration ---------------- *)
MaxW == 2
MaxC == 2
MaxChannels == 2
MaxFrames == 2
MaxNb == 2
MaxRenders == 2
SmallH == 9
QuietS16 == 20

(* ---------------- program constants ---------------- *)
Int16Bits == 16
INT16_MAX == 32767
DefaultH == 240
BytesPerColumn == 4
FP == 10000
ME_FP == 27183
AVERROR_EOF == -541478725

INT_MAX == 2147483647
INT_MIN == (-2147483647) - 1

Abs(x) == IF x < 0 THEN -x ELSE x
Max2(a, b) == IF a > b THEN a ELSE b

RECURSIVE Pow2(_)
Pow2(k) == IF k = 0 THEN 1 ELSE 2 * Pow2(k - 1)

RECURSIVE Gcd(_, _)
Gcd(a, b) == IF b = 0 THEN a ELSE Gcd(b, a % b)

(* ---------------- doubles ---------------- *)
NaN == [cls |-> "nan", num |-> 0, den |-> 1]
PosInf == [cls |-> "inf", num |-> 0, den |-> 1]
Indeterminate == [cls |-> "indet", num |-> 0, den |-> 1]

\* the double sqrt(a/b), a >= 0, b > 0
Fin(a, b) == LET g == Gcd(a, b) IN [cls |-> "fin", num |-> a \div g, den |-> b \div g]
Zero == Fin(0, 1)
One == Fin(1, 1)

\* a > b on doubles
DGt(a, b) ==
    CASE a.cls = "nan" \/ b.cls = "nan" -> FALSE
      [] a.cls = "inf" -> b.cls = "fin"
      [] b.cls = "inf" -> FALSE
      [] OTHER -> a.num * b.den > b.num * a.den

\* a >= b on doubles
DGe(a, b) ==
    CASE a.cls = "nan" \/ b.cls = "nan" -> FALSE
      [] a.cls = "inf" -> TRUE
      [] b.cls = "inf" -> FALSE
      [] OTHER -> a.num * b.den >= b.num * a.den

\* #define FFMAX(a,b) ((a) > (b) ? (a) : (b))
FFMAX(a, b) == IF DGt(a, b) THEN a ELSE b

\* sqrt(*sum / max_samples): sum is a non-negative integer-valued double,
\* max_samples an int64 converted to double
SqrtDiv(s, cnt) ==
    IF cnt = 0 THEN (IF s = 0 THEN NaN ELSE PosInf)
    ELSE Fin(s, cnt)

\* values[i] / (double) max
DDiv(v, m) ==
    CASE v.cls = "nan" \/ m.cls = "nan" -> NaN
      [] v.cls = "inf" -> IF m.cls = "inf" THEN NaN ELSE PosInf
      [] m.cls = "inf" -> Zero
      [] m.num = 0 -> IF v.num = 0 THEN NaN ELSE PosInf
      [] OTHER -> Fin(v.num * m.den, v.den * m.num)

(* ---------------- configuration and state ---------------- *)
VARIABLES
    phase,      \* "created", "ready", "aborted", "crashed", "closed"
    w, h, c,    \* DumpWaveContext.w, .h, .c
    channels,   \* inlink->channels
    values,     \* DumpWaveContext.values, indexed 0..w-1
    str,        \* DumpWaveContext.str, indexed 0..4w-1
    sum, n, col, max,
    eof,        \* the input link has reported AVERROR_EOF
    inFrames,   \* frames handed to dumpwave_filter_frame, in order
    outFrames,  \* frames passed to ff_filter_frame on the output, in order
    nIngested,  \* iterations of the sample loop so far
    committed,  \* set of the RMS values written into values[] so far
    written,    \* set of the indices of values[] the commits have stored to
    reads,      \* interleaved indices read by the latest filter_frame call
    renders,    \* number of executions of the rendering loop
    rendered,   \* integers printed by the latest rendering
    hiWrite,    \* highest offset of str written by the latest rendering
    initRet,    \* return value of init(), 1 before it has run
    castMode,   \* how this build converts NaN and infinities to int
    dump        \* the document written by uninit, <<>> when none

vars == <<phase, w, h, c, channels, values, str, sum, n, col, max, eof,
          inFrames, outFrames, nIngested, committed, written, reads,
          renders, rendered, hiWrite, initRet, castMode, dump>>

Heights == {SmallH, DefaultH}

\* first-channel / interleaved sample patterns a frame's data repeats
FrameData ==
    { <<0, QuietS16>>, <<INT16_MAX, 0, -INT16_MAX>> }

\* frame->nb_samples values: small frames, and the smallest sample count
\* that does not fit int16_t
FrameSizes == (1..MaxNb) \cup {Pow2(Int16Bits - 1)}

Frames == [nb_samples : FrameSizes, data : FrameData]

Init ==
    /\ phase = "created"
    /\ w \in {1, MaxW}
    /\ h \in Heights
    /\ c \in 0..MaxC
    /\ channels \in {1, MaxChannels}
    /\ values = <<>>
    /\ str = <<>>
    /\ sum = 0 /\ n = 0 /\ col = 0 /\ max = Zero
    /\ eof = FALSE
    /\ inFrames = <<>> /\ outFrames = <<>>
    /\ nIngested = 0
    /\ committed = {}
    /\ written = {}
    /\ reads = <<>>
    /\ renders = 0
    /\ rendered = <<>>
    /\ hiWrite = -1
    /\ initRet = 1
    /\ castMode = "none"
    /\ dump = <<>>

(* ---------------- init (lines 74-82) ---------------- *)
\* av_malloc does not clear: every slot of values and every byte of str
\* is indeterminate until written.  init returns 0 for every configuration.
InitFilter ==
    /\ phase = "created"
    /\ values' = [i \in 0..(w - 1) |-> Indeterminate]
    /\ str' = [i \in 0..(w * BytesPerColumn - 1) |-> "?"]
    /\ initRet' = 0
    /\ phase' = "ready"
    /\ UNCHANGED <<w, h, c, channels, sum, n, col, max, eof, inFrames,
                   outFrames, nIngested, committed, written, reads, renders,
                   rendered, hiWrite, castMode, dump>>

(* ---------------- dumpwave_filter_frame (lines 175-230) ---------------- *)
\* const int16_t nb_samples = frame->nb_samples;
ToInt16(k) ==
    LET m == k % Pow2(Int16Bits)
    IN  IF m >= Pow2(Int16Bits - 1) THEN m - Pow2(Int16Bits) ELSE m

\* p[j] of frame->data[0]
FrameSample(frame, j) == frame.data[(j % Len(frame.data)) + 1]

\* lines 199-208: smpl = s16/32767; if nonzero, (20*log10(|smpl|) + 60)/60
\* clamped below at 0.  |smpl| = 1 gives exactly 1; |smpl| < 10^-3 gives a
\* negative value, clamped to 0.
Perceptual(s16) ==
    CASE s16 = 0 -> 0
      [] Abs(s16) = INT16_MAX -> 1
      [] s16 # 0 /\ Abs(s16) * 1000 < INT16_MAX -> 0

\* av_assert0(*col < ch_width): the process aborts when this is false
AssertColInRange_Mut(st) == st.col <= w
AssertColInRange(st) == st.col < w

\* ff_filter_frame(ctx->outputs[0], frame)
ForwardFrame_Mut(frames, frame) == IF col = w THEN frames ELSE Append(frames, frame)
ForwardFrame(frames, frame) == Append(frames, frame)

\* one iteration of the loop body (lines 198-221) on accumulator state st
IngestSample(st, s16, idx) ==
    LET smpl == Perceptual(s16)
        sum1 == st.sum + smpl * smpl
        st1  == [st EXCEPT !.sum = sum1, !.n = st.n + 1,
                           !.reads = Append(st.reads, idx),
                           !.cnt = st.cnt + 1]
    IN  IF st.n = c
        THEN LET sample == SqrtDiv(sum1, c)
             IN  IF ~AssertColInRange(st)
                 THEN [st1 EXCEPT !.aborted = TRUE]
                 ELSE [st1 EXCEPT !.values = [st.values EXCEPT ![st.col] = sample],
                                  !.committed = st.committed \cup {sample},
                                  !.written = st.written \cup {st.col},
                                  !.sum = 0,
                                  !.max = FFMAX(st.max, sample),
                                  !.col = st.col + 1,
                                  !.n = 0]
        ELSE st1

\* for (i = 0; i < nb_samples; i++) ...
RECURSIVE IngestLoop(_, _, _, _)
IngestLoop(st, i, nb_samples, frame) ==
    IF st.aborted \/ ~(i < nb_samples) THEN st
    ELSE IngestLoop(IngestSample(st, FrameSample(frame, i * channels), i * channels),
                    i + 1, nb_samples, frame)

FilterFrame(frame) ==
    /\ phase = "ready"
    /\ ~eof
    /\ Len(inFrames) < MaxFrames
    /\ LET st0 == [sum |-> sum, n |-> n, col |-> col, max |-> max,
                   values |-> values, committed |-> committed,
                   written |-> written,
                   reads |-> <<>>, cnt |-> 0, aborted |-> FALSE]
           st  == IngestLoop(st0, 0, ToInt16(frame.nb_samples), frame)
       IN  /\ sum' = st.sum
           /\ n' = st.n
           /\ col' = st.col
           /\ max' = st.max
           /\ values' = st.values
           /\ committed' = st.committed
           /\ written' = st.written
           /\ reads' = st.reads
           /\ nIngested' = nIngested + st.cnt
           /\ inFrames' = Append(inFrames, frame)
           /\ IF st.aborted
              THEN /\ phase' = "aborted"
                   /\ outFrames' = outFrames
              ELSE /\ phase' = phase
                   /\ outFrames' = ForwardFrame(outFrames, frame)
    /\ UNCHANGED <<w, h, c, channels, str, eof, renders, rendered, hiWrite,
                   initRet, castMode, dump>>

(* ---------------- dumpwave_request_frame (lines 143-173) ---------------- *)
\* outcomes of reading an uninitialised double
Garbage == {Zero, One}

\* what a read of slot v can yield
SlotReads(v) == IF v.cls = "indet" THEN Garbage ELSE {v}

\* converting NaN or an infinity to int is undefined in C.  The builds
\* differ: "indefinite" yields INT_MIN for both (cvttsd2si), "saturating"
\* yields 0 for NaN and INT_MAX for +inf (fcvtzs)
CastModes == {"indefinite", "saturating"}

RECURSIVE ISqrtB(_, _, _)
ISqrtB(x, lo, hi) ==
    IF lo >= hi THEN lo
    ELSE LET mid == (lo + hi + 1) \div 2
         IN  IF mid * mid <= x THEN ISqrtB(x, mid, hi) ELSE ISqrtB(x, lo, mid - 1)

\* floor of the square root
ISqrt(x) == ISqrtB(x, 0, 46340)

\* FP * sqrt(q.num / q.den)
RatioFP(q) == ISqrt((q.num * FP * FP) \div q.den)

RECURSIVE ExpSeries(_, _, _)
ExpSeries(x, term, k) ==
    IF term = 0 THEN 0
    ELSE term + ExpSeries(x, (term * x) \div (k * FP), k + 1)

\* FP * exp(x / FP), x >= 0
ExpPos(x) == ExpSeries(x, FP, 1)

\* FP * exp(r/FP * M_E - M_E)
ExpFP(r) ==
    IF r >= FP THEN ExpPos((ME_FP * (r - FP)) \div FP)
    ELSE (FP * FP) \div ExpPos((ME_FP * (FP - r)) \div FP)

\* lines 165-166 for one slot value v:
\* res = ch_height * exp(v / max * M_E - M_E), converted to int
SlotInt(v, mode) ==
    LET ratio == DDiv(v, max)
    IN  CASE ratio.cls = "fin" -> (h * ExpFP(RatioFP(ratio))) \div FP
          [] ratio.cls = "nan" -> IF mode = "indefinite" THEN INT_MIN ELSE 0
          [] ratio.cls = "inf" -> IF mode = "indefinite" THEN INT_MIN ELSE INT_MAX

Digit(d) == <<"0", "1", "2", "3", "4", "5", "6", "7", "8", "9">>[d + 1]

RECURSIVE NatStr(_)
NatStr(k) == IF k < 10 THEN <<Digit(k)>> ELSE NatStr(k \div 10) \o <<Digit(k % 10)>>

\* digits of -k for k <= 0, most significant first (no negation of INT_MIN)
RECURSIVE NegStr(_)
NegStr(k) ==
    IF k > -10 THEN <<Digit(-k)>>
    ELSE LET q == (k + 9) \div 10
         IN  NegStr(q) \o <<Digit(10 * q - k)>>

\* the characters "%d" prints
DecStr(k) == IF k >= 0 THEN NatStr(k) ELSE <<"-">> \o NegStr(k)

\* a store to pos[off]; a store outside the allocation leaves str alone
\* and is recorded in hi
Store(b, off, ch) ==
    [buf |-> IF off \in DOMAIN b.buf THEN [b.buf EXCEPT ![off] = ch] ELSE b.buf,
     hi  |-> Max2(b.hi, off)]

\* stores of chars[1], chars[2], ... to pos[off], pos[off + 1], ...
StoreAll(b, off, chars) ==
    [buf |-> [o \in DOMAIN b.buf |->
                IF o >= off /\ o < off + Len(chars) THEN chars[o - off + 1]
                ELSE b.buf[o]],
     hi  |-> Max2(b.hi, off + Len(chars) - 1)]

\* sprintf(pos, "%d,", res): the characters, then the terminator
Sprintf(b, pos, res) == StoreAll(b, pos, DecStr(res) \o <<",", "NUL">>)

\* the loop of lines 164-168 from column i on, then pos[-1] = '\0'
RECURSIVE RenderLoop(_, _, _, _)
RenderLoop(b, pos, i, ints) ==
    IF ~(i < w) THEN Store(b, pos - 1, "NUL")
    ELSE RenderLoop(Sprintf(b, pos, ints[i]), pos + Len(DecStr(ints[i])) + 1,
                    i + 1, ints)

\* the contents values[] can turn out to have when it is read: a slot
\* never written holds whatever av_malloc left there
Resolutions ==
    {f \in [0..(w - 1) -> Garbage \cup {values[i] : i \in 0..(w - 1)}] :
        \A i \in 0..(w - 1) : f[i] \in SlotReads(values[i])}

RequestFrame ==
    /\ phase = "ready"
    /\ renders < MaxRenders
    /\ \E ret \in (IF eof THEN {AVERROR_EOF} ELSE {0, AVERROR_EOF}) :
         IF ret = AVERROR_EOF
         THEN \E vals \in Resolutions :
              \E mode \in (IF castMode = "none" THEN CastModes ELSE {castMode}) :
                LET ints == [i \in 0..(w - 1) |-> SlotInt(vals[i], mode)]
                    b == RenderLoop([buf |-> str, hi |-> -1], 0, 0, ints)
                    undef == \E i \in 0..(w - 1) : DDiv(vals[i], max).cls # "fin"
                IN  /\ values' = vals
                    /\ castMode' = IF undef THEN mode ELSE castMode
                    /\ str' = b.buf
                    /\ hiWrite' = b.hi
                    /\ rendered' = [i \in 1..w |-> ints[i - 1]]
                    /\ renders' = renders + 1
                    /\ eof' = TRUE
                    \* a store past the end of str is undefined: it lands in
                    \* allocator padding, or corrupts the heap
                    /\ phase' \in (IF b.hi >= w * BytesPerColumn
                                   THEN {"ready", "crashed"} ELSE {"ready"})
         ELSE UNCHANGED <<values, castMode, str, hiWrite, rendered, renders,
                          eof, phase>>
    /\ UNCHANGED <<w, h, c, channels, sum, n, col, max, inFrames,
                   outFrames, nIngested, committed, written, reads, initRet, dump>>

(* ---------------- uninit (lines 84-102) ---------------- *)
\* the C string at result: the bytes before the first terminator
RECURSIVE CStr(_, _)
CStr(buf, off) ==
    IF off \notin DOMAIN buf \/ buf[off] = "NUL" THEN <<>>
    ELSE <<buf[off]>> \o CStr(buf, off + 1)

\* the json option is set and the file can be opened: the document holds
\* width, height and the string at result
Uninit ==
    /\ phase = "ready"
    /\ dump' = <<w, h, CStr(str, 0)>>
    /\ phase' = "closed"
    /\ UNCHANGED <<w, h, c, channels, values, str, sum, n, col, max, eof,
                   inFrames, outFrames, nIngested, committed, written, reads, renders,
                   rendered, hiWrite, initRet, castMode>>

Next ==
    \/ InitFilter
    \/ \E frame \in Frames : FilterFrame(frame)
    \/ RequestFrame
    \/ Uninit

Spec == Init /\ [][Next]_vars

(* ---------------- C1 ---------------- *)
\* C1: with C > 0, after a stream of L ingested samples the column cursor
\* equals min(floor(L / C), W).
C1_ColumnIsFloorLOverC ==
    (c > 0 /\ phase # "created") =>
        col = (IF nIngested \div c < w THEN nIngested \div c ELSE w)

(* ---------------- C2 ---------------- *)
\* C2 (as stated): every frame handed to dumpwave_filter_frame has been
\* forwarded, unmodified, exactly once and in input order, in every state.
C2_EveryFrameForwarded == outFrames = inFrames

\* C2 (amended): the frames forwarded are the frames handed in, in order,
\* except that the frame whose ingestion trips the column assertion is
\* never forwarded, because the process aborts inside the sample loop.
C2_ForwardedUnlessAborted ==
    /\ phase # "aborted" => outFrames = inFrames
    /\ phase = "aborted" =>
         /\ inFrames # <<>>
         /\ outFrames = SubSeq(inFrames, 1, Len(inFrames) - 1)

\* a frame was handed in when the cursor was already at W, its samples
\* were ingested without reaching a window boundary, and it was forwarded
C2_Witness ==
    /\ phase = "ready"
    /\ col = w
    /\ reads # <<>>
    /\ n >= Len(reads)
    /\ Len(inFrames) >= 2
    /\ outFrames = inFrames

(* ---------------- C3 ---------------- *)
\* C3: 0 <= column <= W in every state, every index of values[] a commit
\* stored to lies in 0..W-1, and the process has aborted only at a window
\* boundary reached with column = W.
C3_ColumnInRange ==
    /\ col \in 0..w
    /\ written \subseteq 0..(w - 1)
    /\ written = 0..(col - 1)
    /\ phase = "aborted" => col = w

\* the assertion has fired
C3_Witness == phase = "aborted" /\ col = w /\ written = 0..(w - 1)

(* ---------------- C4 ---------------- *)
\* C4: whenever the rendering has run, the rendered output is W integers,
\* each in 0..H.
C4_RenderedInRange ==
    renders > 0 =>
        /\ Len(rendered) = w
        /\ \A i \in 1..w : rendered[i] \in 0..h

(* ---------------- C5 ---------------- *)
\* C5: peak is the maximum of the RMS values committed so far, 0 when
\* there is none.
C5_PeakIsMaxCommitted ==
    IF committed = {} THEN max = Zero
    ELSE /\ max \in committed
         /\ \A v \in committed : DGe(max, v)

(* ---------------- C6 ---------------- *)
\* C6: over any sequence of calls the rendering has executed exactly once
\* when end-of-stream has been observed, and not at all before.
C6_RenderedOnce == renders = (IF eof THEN 1 ELSE 0)

(* ---------------- C7 ---------------- *)
\* C7: after init and before the first sample, every slot of values[] holds
\* 0 and sum, n, col and max are 0; a slot no commit has stored to reads as
\* 0 when the rendering iterates over it.
C7_ZeroAfterInit ==
    /\ (phase = "ready" /\ nIngested = 0) =>
          /\ \A i \in 0..(w - 1) : SlotReads(values[i]) = {Zero}
          /\ sum = 0 /\ n = 0 /\ col = 0 /\ max = Zero
    /\ (phase # "created" /\ renders > 0) =>
          \A i \in (0..(w - 1)) \ written : values[i] = Zero

(* ---------------- C8 ---------------- *)
\* C8: with C <= 0 or W <= 0, init fails, no sample is ingested and no
\* window is committed.
C8_InvalidConfigRejected ==
    (c <= 0 \/ w <= 0) =>
        /\ phase = "created" \/ initRet < 0
        /\ nIngested = 0
        /\ written = {}

(* ---------------- C9 ---------------- *)
\* C9: a call of dumpwave_filter_frame that returns has read, for a frame
\* of k samples per channel, exactly the interleaved indices
\* 0, channels, ..., (k-1)*channels, in this order.
C9_AllSamplesIngested ==
    (inFrames # <<>> /\ outFrames = inFrames) =>
        LET k == inFrames[Len(inFrames)].nb_samples
        IN  /\ Len(reads) = k
            /\ \A i \in 1..k : reads[i] = (i - 1) * channels

(* ---------------- C10 ---------------- *)
\* C10: when W >= 1, H <= 999 and every rendered integer lies in 0..H,
\* every byte the rendering stored lies at an offset in 0..4W-1.
C10_WritesInsideBuffer ==
    (/\ renders > 0
     /\ w >= 1
     /\ h <= 999
     /\ \A i \in 1..w : rendered[i] \in 0..h) =>
        hiWrite <= w * BytesPerColumn - 1

====
